---------------------------- MODULE Spec2Model ----------------------------
(***************************************************************************)
(* A model of MiniMotorwaysEnvironment and PathFinder                      *)
(* (src/mini_motorways_env.h, src/mini_motorways_env.cpp).                 *)
(*                                                                         *)
(* The state is the environment's game state and metrics.  Rendering       *)
(* members (window, renderer, Car::visual_x/visual_y/speed) never feed     *)
(* back into the game state and are left out.  The random number           *)
(* generator is an input: every draw is a choice.                          *)
(***************************************************************************)
EXTENDS Integers, Sequences, FiniteSets, TLC

VARIABLES grid, cars, buildings, resources,
          score, current_step, game_over, congestion_penalty,
          call

vars == <<grid, cars, buildings, resources,
          score, current_step, game_over, congestion_penalty, call>>

\* The environment's members, without the record of the last call.
env == <<grid, cars, buildings, resources,
         score, current_step, game_over, congestion_penalty>>

---------------------------------------------------------------------------
\* Program constants.

GRID_WIDTH == 20
GRID_HEIGHT == 20
MAX_STEPS == 1000

\* enum class TileType
EMPTY == 0
HOUSE == 1
BUSINESS == 2
ROAD == 3
MOTORWAY == 4
BRIDGE == 5
ROUNDABOUT == 6
TRAFFIC_LIGHT == 7

\* enum class CarColor (the three colours spawn_initial_buildings uses)
RED == 0
BLUE == 1
GREEN == 2

\* Building::max_cars
MAX_CARS == 5
\* simulate_traffic: stuck_time > 10 adds to the congestion penalty
CONGESTION_THRESHOLD == 10
\* check_game_over: stuck_time > 20 counts a car as stuck; more than 10 end it
STUCK_THRESHOLD == 20
STUCK_CARS_LIMIT == 10
\* check_game_over: no resources and more than 15 cars end it
CAR_COUNT_LIMIT == 15
\* step: action[0] < 6 is an infrastructure action
ACTION_LIMIT == 6
\* step: action.size() != 3 is a malformed action
ACTION_SIZE == 3
\* spawn_cars: current_step % 5 == 0
SPAWN_PERIOD == 5

ResourceKeys == {"roads", "motorways", "bridges", "roundabouts",
                 "traffic_lights", "upgrades"}

\* The ledger the constructor and reset() write.
InitialResources ==
    [k \in ResourceKeys |->
        CASE k = "roads" -> 20
          [] k = "motorways" -> 3
          [] k = "bridges" -> 2
          [] k = "roundabouts" -> 1
          [] k = "traffic_lights" -> 2
          [] OTHER -> 1]

EmptyGrid == [y \in 0..(GRID_HEIGHT - 1) |-> [x \in 0..(GRID_WIDTH - 1) |-> EMPTY]]

---------------------------------------------------------------------------
\* Bounds of the model: the inputs it draws.

\* The free cells between the two cells the building draws fall on.
CorridorLen == 2
\* step() is explored while current_step is below this.
StepCap == 17

\* Direct calls of execute_action address columns up to this one.
ActionSpan == 1

\* Before a reset() an episode is run while current_step is below this.
ResetStepCap == 8

\* The episode with two ways is run while current_step is below this.
DetourStepCap == 18
\* The episode that fills the grid with cars is explored while current_step
\* is below this.
CrowdStepCap == 31

\* The layouts the path finder is called on span columns 0..PathSpan.
PathSpan == 1

\* The cells the random position draws of reset() fall on: the two ends of
\* a corridor in row 0.
DrawCells == {<<0, 0>>, <<CorridorLen + 1, 0>>}

---------------------------------------------------------------------------
\* Position helpers.

Pos(x, y) == <<x, y>>
PX(p) == p[1]
PY(p) == p[2]

is_valid_position(pos) ==
    /\ PX(pos) >= 0 /\ PX(pos) < GRID_WIDTH
    /\ PY(pos) >= 0 /\ PY(pos) < GRID_HEIGHT

Passable(tile) ==
    \/ tile = ROAD \/ tile = MOTORWAY \/ tile = BRIDGE \/ tile = ROUNDABOUT
    \/ tile = TRAFFIC_LIGHT \/ tile = HOUSE \/ tile = BUSINESS

can_move_to(g, pos) ==
    IF ~is_valid_position(pos) THEN FALSE
    ELSE Passable(g[PY(pos)][PX(pos)])

SetTile(g, x, y, tile) == [g EXCEPT ![y][x] = tile]

---------------------------------------------------------------------------
\* MiniMotorwaysEnvironment::execute_action.  A result is the grid and the
\* ledger after the call and the value returned.

Outcome(g, res, ret) == [grid |-> g, resources |-> res, ret |-> ret]

\* Mutants of PlaceTile: the resource is not looked at; the tile is written
\* before the resource is looked at; the resource is not taken.
PlaceTile_NoResourceCheck(g, res, x, y, key, from, to) ==
    IF g[y][x] = from
    THEN Outcome(SetTile(g, x, y, to), [res EXCEPT ![key] = @ - 1], TRUE)
    ELSE Outcome(g, res, FALSE)

PlaceTile_TileBeforeResource(g, res, x, y, key, from, to) ==
    IF g[y][x] = from
    THEN IF res[key] > 0
         THEN Outcome(SetTile(g, x, y, to), [res EXCEPT ![key] = @ - 1], TRUE)
         ELSE Outcome(SetTile(g, x, y, to), res, FALSE)
    ELSE Outcome(g, res, FALSE)

PlaceTile_NoDecrement(g, res, x, y, key, from, to) ==
    IF res[key] > 0 /\ g[y][x] = from
    THEN Outcome(SetTile(g, x, y, to), res, TRUE)
    ELSE Outcome(g, res, FALSE)

\* Cases 0..4: `if (resources[key] > 0 && grid[y][x] == from)` sets the
\* tile to `to`, takes one `key` and returns true; otherwise the switch is
\* left and false is returned.
PlaceTile(g, res, x, y, key, from, to) ==
    IF res[key] > 0 /\ g[y][x] = from
    THEN Outcome(SetTile(g, x, y, to), [res EXCEPT ![key] = @ - 1], TRUE)
    ELSE Outcome(g, res, FALSE)

\* Mutants of RemoveTile: every removal is paid back in roads; the tile is
\* cleared and nothing is paid back.
RemoveTile_AlwaysRoads(g, res, x, y) ==
    IF g[y][x] = ROAD \/ g[y][x] = MOTORWAY
    THEN Outcome(SetTile(g, x, y, EMPTY), [res EXCEPT !["roads"] = @ + 1], TRUE)
    ELSE Outcome(g, res, FALSE)

RemoveTile_NoRefund(g, res, x, y) ==
    IF g[y][x] = ROAD \/ g[y][x] = MOTORWAY
    THEN Outcome(SetTile(g, x, y, EMPTY), res, TRUE)
    ELSE Outcome(g, res, FALSE)

\* Mutant of RemoveTile: whatever stands on the cell is cleared.
RemoveTile_AnyTile(g, res, x, y) ==
    IF g[y][x] # EMPTY
    THEN LET removed == g[y][x]
             res2 == IF removed = ROAD
                     THEN [res EXCEPT !["roads"] = @ + 1]
                     ELSE IF removed = MOTORWAY
                          THEN [res EXCEPT !["motorways"] = @ + 1]
                          ELSE res
         IN  Outcome(SetTile(g, x, y, EMPTY), res2, TRUE)
    ELSE Outcome(g, res, FALSE)

\* Case 5: a Road or Motorway tile is cleared and its resource returned.
RemoveTile(g, res, x, y) ==
    IF g[y][x] = ROAD \/ g[y][x] = MOTORWAY
    THEN LET removed == g[y][x]
             res2 == IF removed = ROAD
                     THEN [res EXCEPT !["roads"] = @ + 1]
                     ELSE IF removed = MOTORWAY
                          THEN [res EXCEPT !["motorways"] = @ + 1]
                          ELSE res
         IN  Outcome(SetTile(g, x, y, EMPTY), res2, TRUE)
    ELSE Outcome(g, res, FALSE)

\* Mutant of execute_action: the traffic light is placed on an Empty cell,
\* like the other four kinds.
execute_action_LightOnEmpty(g, res, action_type, x, y) ==
    IF ~is_valid_position(Pos(x, y)) THEN Outcome(g, res, FALSE)
    ELSE CASE action_type = 0 -> PlaceTile(g, res, x, y, "roads", EMPTY, ROAD)
           [] action_type = 1 -> PlaceTile(g, res, x, y, "motorways", EMPTY, MOTORWAY)
           [] action_type = 2 -> PlaceTile(g, res, x, y, "bridges", EMPTY, BRIDGE)
           [] action_type = 3 -> PlaceTile(g, res, x, y, "roundabouts", EMPTY, ROUNDABOUT)
           [] action_type = 4 -> PlaceTile(g, res, x, y, "traffic_lights", EMPTY, TRAFFIC_LIGHT)
           [] action_type = 5 -> RemoveTile(g, res, x, y)
           [] OTHER -> Outcome(g, res, FALSE)

\* Mutant of execute_action: action type 6 spends the upgrade.
execute_action_SixSpendsUpgrade(g, res, action_type, x, y) ==
    IF ~is_valid_position(Pos(x, y)) THEN Outcome(g, res, FALSE)
    ELSE CASE action_type = 0 -> PlaceTile(g, res, x, y, "roads", EMPTY, ROAD)
           [] action_type = 1 -> PlaceTile(g, res, x, y, "motorways", EMPTY, MOTORWAY)
           [] action_type = 2 -> PlaceTile(g, res, x, y, "bridges", EMPTY, BRIDGE)
           [] action_type = 3 -> PlaceTile(g, res, x, y, "roundabouts", EMPTY, ROUNDABOUT)
           [] action_type = 4 -> PlaceTile(g, res, x, y, "traffic_lights", ROAD, TRAFFIC_LIGHT)
           [] action_type = 5 -> RemoveTile(g, res, x, y)
           [] action_type = 6 /\ res["upgrades"] > 0 ->
                  Outcome(g, [res EXCEPT !["upgrades"] = @ - 1], TRUE)
           [] OTHER -> Outcome(g, res, FALSE)

\* Mutant of execute_action: a traffic light is paid for in roads.
execute_action_LightPaidInRoads(g, res, action_type, x, y) ==
    IF ~is_valid_position(Pos(x, y)) THEN Outcome(g, res, FALSE)
    ELSE CASE action_type = 0 -> PlaceTile(g, res, x, y, "roads", EMPTY, ROAD)
           [] action_type = 1 -> PlaceTile(g, res, x, y, "motorways", EMPTY, MOTORWAY)
           [] action_type = 2 -> PlaceTile(g, res, x, y, "bridges", EMPTY, BRIDGE)
           [] action_type = 3 -> PlaceTile(g, res, x, y, "roundabouts", EMPTY, ROUNDABOUT)
           [] action_type = 4 -> PlaceTile(g, res, x, y, "roads", ROAD, TRAFFIC_LIGHT)
           [] action_type = 5 -> RemoveTile(g, res, x, y)
           [] OTHER -> Outcome(g, res, FALSE)

execute_action(g, res, action_type, x, y) ==
    IF ~is_valid_position(Pos(x, y)) THEN Outcome(g, res, FALSE)
    ELSE CASE action_type = 0 -> PlaceTile(g, res, x, y, "roads", EMPTY, ROAD)
           [] action_type = 1 -> PlaceTile(g, res, x, y, "motorways", EMPTY, MOTORWAY)
           [] action_type = 2 -> PlaceTile(g, res, x, y, "bridges", EMPTY, BRIDGE)
           [] action_type = 3 -> PlaceTile(g, res, x, y, "roundabouts", EMPTY, ROUNDABOUT)
           [] action_type = 4 -> PlaceTile(g, res, x, y, "traffic_lights", ROAD, TRAFFIC_LIGHT)
           [] action_type = 5 -> RemoveTile(g, res, x, y)
           [] OTHER -> Outcome(g, res, FALSE)

---------------------------------------------------------------------------
\* PathFinder.

Abs(n) == IF n < 0 THEN -n ELSE n

\* Manhattan distance.
calculate_distance(a, b) == Abs(PX(a) - PX(b)) + Abs(PY(a) - PY(b))

Reverse(s) == [i \in 1..Len(s) |-> s[Len(s) + 1 - i]]

\* The walk back from `goal` over came_from: every cell that is not `start`
\* is pushed; a cell without an entry ends the walk.
RECURSIVE WalkBack(_, _, _, _)
WalkBack(came_from, start, current, path) ==
    IF current = start THEN path
    ELSE LET pushed == Append(path, current)
         IN  IF current \notin DOMAIN came_from THEN pushed
             ELSE WalkBack(came_from, start, came_from[current], pushed)

\* Mutant of reconstruct_path: the walk back begins at the cell the goal
\* was reached from.
reconstruct_path_WithoutGoal(came_from, start, goal) ==
    LET from == IF goal \in DOMAIN came_from THEN came_from[goal] ELSE goal
    IN  Reverse(Append(WalkBack(came_from, start, from, <<>>), start))

\* Mutant of reconstruct_path: the walk is returned as pushed, goal first.
reconstruct_path_Unreversed(came_from, start, goal) ==
    Append(WalkBack(came_from, start, goal, <<>>), start)

reconstruct_path(came_from, start, goal) ==
    Reverse(Append(WalkBack(came_from, start, goal, <<>>), start))

\* Mutant of directions: the step to the west is missing.
directions_ThreeWay == <<Pos(0, 1), Pos(1, 0), Pos(0, -1)>>

\* std::vector<Position> directions
directions == <<Pos(0, 1), Pos(1, 0), Pos(0, -1), Pos(-1, 0)>>

Node(pos, g_cost, h_cost) == [pos |-> pos, g_cost |-> g_cost, h_cost |-> h_cost]
f_cost(n) == n.g_cost + n.h_cost

\* The neighbour loop of find_path for the popped node at `cur`, from
\* direction i on.  `st` holds open_set, came_from and g_score; closed_set
\* does not change in the loop.
RECURSIVE ExpandNeighbors(_, _, _, _, _, _)
ExpandNeighbors(i, cur, st, closed_set, goal, g) ==
    IF i > Len(directions) THEN st
    ELSE LET neighbor == Pos(PX(cur) + PX(directions[i]), PY(cur) + PY(directions[i]))
         IN  IF \/ PX(neighbor) < 0 \/ PX(neighbor) >= GRID_WIDTH
                \/ PY(neighbor) < 0 \/ PY(neighbor) >= GRID_HEIGHT
             THEN ExpandNeighbors(i + 1, cur, st, closed_set, goal, g)
             ELSE IF neighbor \in closed_set
             THEN ExpandNeighbors(i + 1, cur, st, closed_set, goal, g)
             ELSE IF ~Passable(g[PY(neighbor)][PX(neighbor)])
             THEN ExpandNeighbors(i + 1, cur, st, closed_set, goal, g)
             ELSE LET tentative_g == st.g_score[cur] + 1
                  IN  IF \/ neighbor \notin DOMAIN st.g_score
                         \/ tentative_g < st.g_score[neighbor]
                      THEN ExpandNeighbors(i + 1, cur,
                             [open_set |-> st.open_set \cup
                                  {Node(neighbor, tentative_g,
                                        calculate_distance(neighbor, goal))},
                              came_from |-> (neighbor :> cur) @@ st.came_from,
                              g_score |-> (neighbor :> tentative_g) @@ st.g_score],
                             closed_set, goal, g)
                      ELSE ExpandNeighbors(i + 1, cur, st, closed_set, goal, g)

\* The nodes std::priority_queue::top may return: NodeComparator orders by
\* f_cost alone, so which of the nodes of least f_cost is on top is left to
\* the heap; every one of them is a possible outcome.
TopNodes(open_set) ==
    {n \in open_set : \A m \in open_set : f_cost(n) <= f_cost(m)}

\* The while loop of find_path: the set of routes it may return.
RECURSIVE SearchLoop(_, _, _, _, _)
SearchLoop(st, closed_set, start, goal, g) ==
    IF st.open_set = {} THEN {<<>>}
    ELSE UNION {
           IF current.pos = goal
           THEN {reconstruct_path(st.came_from, start, goal)}
           ELSE LET closed2 == closed_set \cup {current.pos}
                    popped == [st EXCEPT !.open_set = @ \ {current}]
                IN  SearchLoop(ExpandNeighbors(1, current.pos, popped, closed2, goal, g),
                               closed2, start, goal, g)
           : current \in TopNodes(st.open_set)}

\* The routes find_path(start, goal, grid) may return; <<>> is "no path".
find_path(start, goal, g) ==
    SearchLoop([open_set |-> {Node(start, 0, calculate_distance(start, goal))},
                came_from |-> <<>>,
                g_score |-> (start :> 0)],
               {}, start, goal, g)

---------------------------------------------------------------------------
\* Cars and buildings.

\* Car::Car
Car(pos, dest, col) ==
    [position |-> pos, destination |-> dest, color |-> col,
     path |-> <<>>, stuck_time |-> 0, completed |-> FALSE]

\* Building::Building
Building(pos, col, t) ==
    [position |-> pos, color |-> col, type |-> t,
     cars_spawned |-> 0, max_cars |-> MAX_CARS]

\* A traffic state: what simulate_traffic reads and writes besides the grid.
Traffic(cs, sc, cp) == [cars |-> cs, score |-> sc, congestion_penalty |-> cp]

\* Mutant of MoveCar: the penalty is counted from stuck_time 10 on.
MoveCar_PenaltyAtThreshold(car, path, sc, cp, g) ==
    LET routed == [car EXCEPT !.path = path]
    IN  IF path # <<>> /\ Len(path) > 1
        THEN LET next_pos == path[2]
             IN  IF can_move_to(g, next_pos)
                 THEN LET moved == [routed EXCEPT !.position = next_pos,
                                                  !.path = Tail(path),
                                                  !.stuck_time = 0]
                      IN  IF moved.position = moved.destination
                          THEN [car |-> [moved EXCEPT !.completed = TRUE],
                                score |-> sc + 1, congestion_penalty |-> cp]
                          ELSE [car |-> moved, score |-> sc, congestion_penalty |-> cp]
                 ELSE LET stuck == [routed EXCEPT !.stuck_time = @ + 1]
                      IN  [car |-> stuck, score |-> sc,
                           congestion_penalty |->
                               IF stuck.stuck_time >= CONGESTION_THRESHOLD
                               THEN cp + 1 ELSE cp]
        ELSE [car |-> routed, score |-> sc, congestion_penalty |-> cp]

\* Mutant of MoveCar: a move leaves the stuck time as it was.
MoveCar_KeepsStuckTime(car, path, sc, cp, g) ==
    LET routed == [car EXCEPT !.path = path]
    IN  IF path # <<>> /\ Len(path) > 1
        THEN LET next_pos == path[2]
             IN  IF can_move_to(g, next_pos)
                 THEN LET moved == [routed EXCEPT !.position = next_pos,
                                                  !.path = Tail(path)]
                      IN  IF moved.position = moved.destination
                          THEN [car |-> [moved EXCEPT !.completed = TRUE],
                                score |-> sc + 1, congestion_penalty |-> cp]
                          ELSE [car |-> moved, score |-> sc, congestion_penalty |-> cp]
                 ELSE LET stuck == [routed EXCEPT !.stuck_time = @ + 1]
                      IN  [car |-> stuck, score |-> sc,
                           congestion_penalty |->
                               IF stuck.stuck_time > CONGESTION_THRESHOLD
                               THEN cp + 1 ELSE cp]
        ELSE [car |-> routed, score |-> sc, congestion_penalty |-> cp]

\* Mutant of MoveCar: arrival is tested on the position the car had before
\* it moved.
MoveCar_ArrivalBeforeMove(car, path, sc, cp, g) ==
    LET routed == [car EXCEPT !.path = path]
    IN  IF path # <<>> /\ Len(path) > 1
        THEN LET next_pos == path[2]
             IN  IF can_move_to(g, next_pos)
                 THEN LET moved == [routed EXCEPT !.position = next_pos,
                                                  !.path = Tail(path),
                                                  !.stuck_time = 0]
                      IN  IF car.position = car.destination
                          THEN [car |-> [moved EXCEPT !.completed = TRUE],
                                score |-> sc + 1, congestion_penalty |-> cp]
                          ELSE [car |-> moved, score |-> sc, congestion_penalty |-> cp]
                 ELSE LET stuck == [routed EXCEPT !.stuck_time = @ + 1]
                      IN  [car |-> stuck, score |-> sc,
                           congestion_penalty |->
                               IF stuck.stuck_time > CONGESTION_THRESHOLD
                               THEN cp + 1 ELSE cp]
        ELSE [car |-> routed, score |-> sc, congestion_penalty |-> cp]

\* Mutant of MoveCar: an arrival is not scored.
MoveCar_ArrivalUnscored(car, path, sc, cp, g) ==
    LET routed == [car EXCEPT !.path = path]
    IN  IF path # <<>> /\ Len(path) > 1
        THEN IF can_move_to(g, path[2])
             THEN LET moved == [routed EXCEPT !.position = path[2],
                                              !.path = Tail(path),
                                              !.stuck_time = 0]
                  IN  [car |-> [moved EXCEPT
                                  !.completed = (moved.position = moved.destination)],
                       score |-> sc, congestion_penalty |-> cp]
             ELSE LET stuck == [routed EXCEPT !.stuck_time = @ + 1]
                  IN  [car |-> stuck, score |-> sc,
                       congestion_penalty |->
                           IF stuck.stuck_time > CONGESTION_THRESHOLD
                           THEN cp + 1 ELSE cp]
        ELSE [car |-> routed, score |-> sc, congestion_penalty |-> cp]

\* Mutant of MoveCar: a car left without a route counts as waiting.
MoveCar_WaitsWithoutRoute(car, path, sc, cp, g) ==
    LET routed == [car EXCEPT !.path = path]
    IN  IF path # <<>> /\ Len(path) > 1 /\ can_move_to(g, path[2])
        THEN LET moved == [routed EXCEPT !.position = path[2],
                                         !.path = Tail(path),
                                         !.stuck_time = 0]
             IN  IF moved.position = moved.destination
                 THEN [car |-> [moved EXCEPT !.completed = TRUE],
                       score |-> sc + 1, congestion_penalty |-> cp]
                 ELSE [car |-> moved, score |-> sc, congestion_penalty |-> cp]
        ELSE LET stuck == [routed EXCEPT !.stuck_time = @ + 1]
             IN  [car |-> stuck, score |-> sc,
                  congestion_penalty |->
                      IF stuck.stuck_time > CONGESTION_THRESHOLD
                      THEN cp + 1 ELSE cp]

\* The body of the loop of simulate_traffic for one car that holds route
\* `path` (after the "find path if needed" statement).
MoveCar(car, path, sc, cp, g) ==
    LET routed == [car EXCEPT !.path = path]
    IN  IF path # <<>> /\ Len(path) > 1
        THEN LET next_pos == path[2]
             IN  IF can_move_to(g, next_pos)
                 THEN LET moved == [routed EXCEPT !.position = next_pos,
                                                  !.path = Tail(path),
                                                  !.stuck_time = 0]
                      IN  IF moved.position = moved.destination
                          THEN [car |-> [moved EXCEPT !.completed = TRUE],
                                score |-> sc + 1, congestion_penalty |-> cp]
                          ELSE [car |-> moved, score |-> sc, congestion_penalty |-> cp]
                 ELSE LET stuck == [routed EXCEPT !.stuck_time = @ + 1]
                      IN  [car |-> stuck, score |-> sc,
                           congestion_penalty |->
                               IF stuck.stuck_time > CONGESTION_THRESHOLD
                               THEN cp + 1 ELSE cp]
        ELSE [car |-> routed, score |-> sc, congestion_penalty |-> cp]

\* Mutant of MoveCars: a car whose next waypoint cannot be entered is given
\* a new route.
RECURSIVE MoveCars_Replans(_, _, _)
MoveCars_Replans(i, t, g) ==
    IF i > Len(t.cars) THEN {t}
    ELSE LET car == t.cars[i]
         IN  IF car.completed THEN MoveCars_Replans(i + 1, t, g)
             ELSE UNION {
                    LET r == MoveCar(car, path, t.score, t.congestion_penalty, g)
                    IN  MoveCars_Replans(i + 1,
                                 Traffic([t.cars EXCEPT ![i] = r.car],
                                         r.score, r.congestion_penalty), g)
                    : path \in IF \/ car.path = <<>>
                                  \/ /\ Len(car.path) > 1
                                     /\ ~can_move_to(g, car.path[2])
                               THEN find_path(car.position, car.destination, g)
                               ELSE {car.path}}

\* The loop of simulate_traffic from car i on: the traffic states it may
\* end in (one for each choice of routes find_path may return).
RECURSIVE MoveCars(_, _, _)
MoveCars(i, t, g) ==
    IF i > Len(t.cars) THEN {t}
    ELSE LET car == t.cars[i]
         IN  IF car.completed THEN MoveCars(i + 1, t, g)
             ELSE UNION {
                    LET r == MoveCar(car, path, t.score, t.congestion_penalty, g)
                    IN  MoveCars(i + 1,
                                 Traffic([t.cars EXCEPT ![i] = r.car],
                                         r.score, r.congestion_penalty), g)
                    : path \in IF car.path = <<>>
                               THEN find_path(car.position, car.destination, g)
                               ELSE {car.path}}

\* Mutant of RemoveCompleted: nothing is erased.
RemoveCompleted_KeepsAll(cs) == cs

\* cars.erase(std::remove_if(...)): the completed cars leave, the others
\* keep their order.
RemoveCompleted(cs) == SelectSeq(cs, LAMBDA c : ~c.completed)

simulate_traffic(cs, sc, cp, g) ==
    {[t EXCEPT !.cars = RemoveCompleted(@)] : t \in MoveCars(1, Traffic(cs, sc, cp), g)}

\* Mutant of FirstBusiness: the colour is not compared.
RECURSIVE FirstBusiness_AnyColour(_, _, _)
FirstBusiness_AnyColour(bs, col, j) ==
    IF j > Len(bs) THEN 0
    ELSE IF bs[j].type = BUSINESS THEN j
    ELSE FirstBusiness_AnyColour(bs, col, j + 1)

\* The index of the first Business of colour `col`, 0 when there is none.
RECURSIVE FirstBusiness(_, _, _)
FirstBusiness(bs, col, j) ==
    IF j > Len(bs) THEN 0
    ELSE IF bs[j].type = BUSINESS /\ bs[j].color = col THEN j
    ELSE FirstBusiness(bs, col, j + 1)

\* Mutant of SpawnFrom: Building::max_cars is not looked at.
RECURSIVE SpawnFrom_Uncapped(_, _, _)
SpawnFrom_Uncapped(i, bs, cs) ==
    IF i > Len(bs) THEN {[buildings |-> bs, cars |-> cs]}
    ELSE IF bs[i].type = HOUSE
         THEN LET j == FirstBusiness(bs, bs[i].color, 1)
                  spawned ==
                      IF j = 0 THEN SpawnFrom_Uncapped(i + 1, bs, cs)
                      ELSE SpawnFrom_Uncapped(i + 1,
                                     [bs EXCEPT ![i].cars_spawned = @ + 1],
                                     Append(cs, Car(bs[i].position, bs[j].position,
                                                    bs[i].color)))
              IN  spawned \cup SpawnFrom_Uncapped(i + 1, bs, cs)
         ELSE SpawnFrom_Uncapped(i + 1, bs, cs)

\* Mutant of SpawnFrom: the count is raised before the Business is looked
\* for.
RECURSIVE SpawnFrom_CountsFirst(_, _, _)
SpawnFrom_CountsFirst(i, bs, cs) ==
    IF i > Len(bs) THEN {[buildings |-> bs, cars |-> cs]}
    ELSE IF bs[i].type = HOUSE /\ bs[i].cars_spawned < bs[i].max_cars
         THEN LET j == FirstBusiness(bs, bs[i].color, 1)
                  counted == [bs EXCEPT ![i].cars_spawned = @ + 1]
                  spawned ==
                      IF j = 0 THEN SpawnFrom_CountsFirst(i + 1, counted, cs)
                      ELSE SpawnFrom_CountsFirst(i + 1, counted,
                                     Append(cs, Car(bs[i].position, bs[j].position,
                                                    bs[i].color)))
              IN  spawned \cup SpawnFrom_CountsFirst(i + 1, bs, cs)
         ELSE SpawnFrom_CountsFirst(i + 1, bs, cs)

\* The loop of spawn_cars from building i on: the (buildings, cars) pairs
\* it may end in.  spawn_dist(rng) < 0.3f is drawn only for a House below
\* its cap, and may come out either way.
RECURSIVE SpawnFrom(_, _, _)
SpawnFrom(i, bs, cs) ==
    IF i > Len(bs) THEN {[buildings |-> bs, cars |-> cs]}
    ELSE IF bs[i].type = HOUSE /\ bs[i].cars_spawned < bs[i].max_cars
         THEN LET j == FirstBusiness(bs, bs[i].color, 1)
                  spawned ==
                      IF j = 0 THEN SpawnFrom(i + 1, bs, cs)
                      ELSE SpawnFrom(i + 1,
                                     [bs EXCEPT ![i].cars_spawned = @ + 1],
                                     Append(cs, Car(bs[i].position, bs[j].position,
                                                    bs[i].color)))
              IN  spawned \cup SpawnFrom(i + 1, bs, cs)
         ELSE SpawnFrom(i + 1, bs, cs)

\* Mutant of spawn_cars: the step counter is not looked at.
spawn_cars_EveryStep(bs, cs, step_no) == SpawnFrom(1, bs, cs)

spawn_cars(bs, cs, step_no) ==
    IF step_no % SPAWN_PERIOD = 0 THEN SpawnFrom(1, bs, cs)
    ELSE {[buildings |-> bs, cars |-> cs]}

\* Sum of the ledger.
RECURSIVE SumOver(_, _)
SumOver(res, keys) ==
    IF keys = {} THEN 0
    ELSE LET k == CHOOSE k \in keys : TRUE
         IN  res[k] + SumOver(res, keys \ {k})

StuckCars(cs) == Cardinality({i \in 1..Len(cs) : cs[i].stuck_time > STUCK_THRESHOLD})

\* Mutant of check_game_over: the episode ends only past MAX_STEPS.
check_game_over_PastHorizon(cs, res, step_no) ==
    IF StuckCars(cs) > STUCK_CARS_LIMIT THEN TRUE
    ELSE IF SumOver(res, DOMAIN res) = 0 /\ Len(cs) > CAR_COUNT_LIMIT THEN TRUE
    ELSE IF step_no > MAX_STEPS THEN TRUE
    ELSE FALSE

\* Mutant of check_game_over: the episode ends one step before MAX_STEPS.
check_game_over_OneEarly(cs, res, step_no) ==
    IF StuckCars(cs) > STUCK_CARS_LIMIT THEN TRUE
    ELSE IF SumOver(res, DOMAIN res) = 0 /\ Len(cs) > CAR_COUNT_LIMIT THEN TRUE
    ELSE IF step_no >= MAX_STEPS - 1 THEN TRUE
    ELSE FALSE

check_game_over(cs, res, step_no) ==
    IF StuckCars(cs) > STUCK_CARS_LIMIT THEN TRUE
    ELSE IF SumOver(res, DOMAIN res) = 0 /\ Len(cs) > CAR_COUNT_LIMIT THEN TRUE
    ELSE IF step_no >= MAX_STEPS THEN TRUE
    ELSE FALSE

---------------------------------------------------------------------------
\* get_observation().  An entry is the float n / d, kept as <<n, d>>.

Ratio(n, d) == <<n, d>>

\* car_density[y][x]: the cars whose position is cell (x, y); a car whose
\* position is not in the grid is counted nowhere.
car_density(cs, x, y) ==
    Cardinality({i \in 1..Len(cs) : /\ is_valid_position(cs[i].position)
                                    /\ cs[i].position = Pos(x, y)})

\* The cell the k-th pass of a loop over y, then x, is at.
CellOf(k) == Pos((k - 1) % GRID_WIDTH, (k - 1) \div GRID_WIDTH)

\* "Flatten grid": an entry for each cell.
grid_layer(g) ==
    [k \in 1..(GRID_HEIGHT * GRID_WIDTH) |->
        Ratio(g[PY(CellOf(k))][PX(CellOf(k))], 7)]

\* "Car density layer": std::min(car_density[y][x] / 5.0f, 1.0f) for each
\* cell.
density_layer(cs) ==
    [k \in 1..(GRID_HEIGHT * GRID_WIDTH) |->
        LET n == car_density(cs, PX(CellOf(k)), PY(CellOf(k)))
        IN  IF n < 5 THEN Ratio(n, 5) ELSE Ratio(1, 1)]

\* Mutant of get_observation: the density layer has an entry for each car.
get_observation_DensityPerCar(g, cs, res, sc, cp, step_no) ==
    grid_layer(g)
    \o [i \in 1..Len(cs) |-> Ratio(1, 5)]
    \o <<Ratio(res["roads"], 20), Ratio(res["motorways"], 3),
         Ratio(res["bridges"], 2), Ratio(res["roundabouts"], 1),
         Ratio(res["traffic_lights"], 2), Ratio(res["upgrades"], 1)>>
    \o <<Ratio(sc, 100), Ratio(Len(cs), 50), Ratio(cp, 100),
         Ratio(step_no, MAX_STEPS)>>

get_observation(g, cs, res, sc, cp, step_no) ==
    grid_layer(g)
    \o density_layer(cs)
    \o <<Ratio(res["roads"], 20), Ratio(res["motorways"], 3),
         Ratio(res["bridges"], 2), Ratio(res["roundabouts"], 1),
         Ratio(res["traffic_lights"], 2), Ratio(res["upgrades"], 1)>>
    \o <<Ratio(sc, 100), Ratio(Len(cs), 50), Ratio(cp, 100),
         Ratio(step_no, MAX_STEPS)>>

---------------------------------------------------------------------------
\* reset().

NO_POSITION == Pos(-1, -1)

\* Mutant of find_empty_position: the tile under the draw is not looked at.
find_empty_position_AnyCell(g, cells) == cells

\* find_empty_position: up to 100 draws, the first one on an Empty cell is
\* returned; (-1, -1) when every draw fell on an occupied cell, which takes
\* an occupied cell to exist.  `cells` is where the draws fall.
find_empty_position(g, cells) ==
    {c \in cells : g[PY(c)][PX(c)] = EMPTY}
    \cup (IF \E y \in DOMAIN g : \E x \in DOMAIN g[y] : g[y][x] # EMPTY
          THEN {NO_POSITION} ELSE {})

\* The buildings spawn_initial_buildings asks for, in order: Houses of
\* colors[0..2], then Businesses of colors[0..1].
InitialBuildings ==
    <<[color |-> RED, type |-> HOUSE], [color |-> BLUE, type |-> HOUSE],
      [color |-> GREEN, type |-> HOUSE],
      [color |-> RED, type |-> BUSINESS], [color |-> BLUE, type |-> BUSINESS]>>

\* spawn_initial_buildings from the i-th building on: the (buildings, grid)
\* pairs it may end in.
RECURSIVE SpawnBuildings(_, _, _, _)
SpawnBuildings(i, bs, g, cells) ==
    IF i > Len(InitialBuildings) THEN {[buildings |-> bs, grid |-> g]}
    ELSE UNION {
           IF PX(pos) # -1
           THEN SpawnBuildings(i + 1,
                    Append(bs, Building(pos, InitialBuildings[i].color,
                                        InitialBuildings[i].type)),
                    SetTile(g, PX(pos), PY(pos), InitialBuildings[i].type),
                    cells)
           ELSE SpawnBuildings(i + 1, bs, g, cells)
           : pos \in find_empty_position(g, cells)}

spawn_initial_buildings(g, cells) == SpawnBuildings(1, <<>>, g, cells)

\* The record of the last call of the interface: the operation, its
\* arguments, whether step ran its phases and called execute_action, the
\* value execute_action returned, the ledger and the target tile as they
\* were before the call (-1 when there is no target in the grid), and the
\* kind the call right before it placed on the same target (-1 when it
\* placed nothing there).
CallRecord(op, action, executed, invoked, ret, res, tile, placed) ==
    [op |-> op, action |-> action, executed |-> executed, invoked |-> invoked,
     ret |-> ret, pre_resources |-> res, pre_tile |-> tile, prev_placed |-> placed]

TileAt(g, action) ==
    IF Len(action) = ACTION_SIZE /\ is_valid_position(Pos(action[2], action[3]))
    THEN g[action[3]][action[2]] ELSE -1

PrevPlaced(last, action) ==
    IF /\ last.ret
       /\ Len(action) = ACTION_SIZE
       /\ last.action[1] \in 0..4
       /\ last.action[2] = action[2]
       /\ last.action[3] = action[3]
    THEN last.action[1] ELSE -1

Init ==
    /\ grid = EmptyGrid
    /\ cars = <<>>
    /\ buildings = <<>>
    /\ resources = InitialResources
    /\ score = 0
    /\ current_step = 0
    /\ game_over = FALSE
    /\ congestion_penalty = 0
    /\ call = CallRecord("construct", <<>>, FALSE, FALSE, FALSE, InitialResources, -1, -1)

\* reset(), with the position draws falling on `cells`.
ResetOn(cells) ==
    \E b \in spawn_initial_buildings(EmptyGrid, cells) :
        /\ grid' = b.grid
        /\ cars' = <<>>
        /\ buildings' = b.buildings
        /\ score' = 0
        /\ current_step' = 0
        /\ game_over' = FALSE
        /\ congestion_penalty' = 0
        /\ resources' = InitialResources
        /\ call' = CallRecord("reset", <<>>, FALSE, FALSE, FALSE, resources, -1, -1)

Reset == ResetOn(DrawCells)

\* A direct call of the public execute_action.
ExecuteAction(action_type, x, y) ==
    LET action == <<action_type, x, y>>
        o == execute_action(grid, resources, action_type, x, y)
    IN  /\ grid' = o.grid
        /\ resources' = o.resources
        /\ call' = CallRecord("execute_action", action, FALSE, TRUE, o.ret,
                              resources, TileAt(grid, action), PrevPlaced(call, action))
        /\ UNCHANGED <<cars, buildings, score, current_step, game_over,
                       congestion_penalty>>

\* Mutant of StepReturnsEarly: the size of the action is not looked at.
StepReturnsEarly_NoSizeCheck(over, action) == over

\* step(): the early return.
StepReturnsEarly(over, action) == over \/ Len(action) # ACTION_SIZE

\* Mutant of phases_after_action: the spawner runs before the traffic.
phases_after_action_SpawnFirst(o, invoked, cs, bs, sc, cp, step_no) ==
    UNION {
      {[grid |-> o.grid, resources |-> o.resources,
        cars |-> t.cars, buildings |-> s.buildings,
        score |-> t.score, congestion_penalty |-> t.congestion_penalty,
        game_over |-> check_game_over(t.cars, o.resources, step_no),
        invoked |-> invoked, ret |-> o.ret]
       : t \in simulate_traffic(s.cars, sc, cp, o.grid)}
      : s \in spawn_cars(bs, cs, step_no)}

\* step() after the action: the traffic on grid o.grid, the spawner, the
\* termination check.  The set of states step may end in.
phases_after_action(o, invoked, cs, bs, sc, cp, step_no) ==
    UNION {
      {[grid |-> o.grid, resources |-> o.resources,
        cars |-> s.cars, buildings |-> s.buildings,
        score |-> t.score, congestion_penalty |-> t.congestion_penalty,
        game_over |-> check_game_over(s.cars, o.resources, step_no),
        invoked |-> invoked, ret |-> o.ret]
       : s \in spawn_cars(bs, t.cars, step_no)}
      : t \in simulate_traffic(cs, sc, cp, o.grid)}

\* Mutant of step_phases: an action of kind 6 or more ends the step after
\* the step counter was incremented.
step_phases_PassReturnsEarly(g, res, cs, bs, sc, cp, over, step_no, action) ==
    IF action[1] < ACTION_LIMIT
    THEN phases_after_action(execute_action(g, res, action[1], action[2], action[3]),
                             TRUE, cs, bs, sc, cp, step_no)
    ELSE {[grid |-> g, resources |-> res, cars |-> cs, buildings |-> bs,
           score |-> sc, congestion_penalty |-> cp, game_over |-> over,
           invoked |-> FALSE, ret |-> FALSE]}

\* step() past the early return, with current_step already incremented to
\* step_no: the action when its kind is below 6, then the other phases.
step_phases(g, res, cs, bs, sc, cp, over, step_no, action) ==
    LET invoked == action[1] < ACTION_LIMIT
        o == IF invoked
             THEN execute_action(g, res, action[1], action[2], action[3])
             ELSE Outcome(g, res, FALSE)
    IN  phases_after_action(o, invoked, cs, bs, sc, cp, step_no)

\* step(action) when game_over holds or the action has not three entries.
StepNoOp(action) ==
    /\ StepReturnsEarly(game_over, action)
    /\ call' = CallRecord("step", action, FALSE, FALSE, FALSE, resources,
                          TileAt(grid, action), -1)
    /\ UNCHANGED env

StepRun(action) ==
    /\ ~StepReturnsEarly(game_over, action)
    /\ \E n \in step_phases(grid, resources, cars, buildings, score,
                            congestion_penalty, game_over, current_step + 1, action) :
           /\ current_step' = current_step + 1
           /\ grid' = n.grid
           /\ resources' = n.resources
           /\ cars' = n.cars
           /\ buildings' = n.buildings
           /\ score' = n.score
           /\ congestion_penalty' = n.congestion_penalty
           /\ game_over' = n.game_over
           /\ call' = CallRecord("step", action, TRUE, n.invoked, n.ret, resources,
                                 TileAt(grid, action), PrevPlaced(call, action))

\* What reset() and step() return: get_observation() of the state they
\* leave, on each of their return paths.
ReturnedObservation ==
    get_observation(grid, cars, resources, score, congestion_penalty, current_step)

---------------------------------------------------------------------------
\* The specifications.

\* The actions the model's agent passes to step(): place a road, remove,
\* and two kinds that edit nothing, on the corridor's cells; and vectors of
\* the wrong size.
StepKinds == {0, 5, 6, 7}
StepActions == {<<k, x, 0>> : k \in StepKinds, x \in 1..CorridorLen}
MalformedActions == {<<6, 1>>, <<6, 1, 0, 0>>}

\* reset() and step(): the traffic in a corridor, for the first StepCap
\* steps of an episode.
Next ==
    \/ Reset
    \/ \E action \in StepActions \cup MalformedActions : StepNoOp(action)
    \/ \E action \in StepActions : current_step < StepCap /\ StepRun(action)

Spec == Init /\ [][Next]_vars

\* The direct calls of execute_action: every defined kind, one below and
\* one above, on the cells of row 0 up to column ActionSpan and on the far
\* end of the corridor; a placement and a removal on the first cell beyond
\* the grid on each of its four sides.
ActionKinds == -1..6
InsideCells == {<<x, 0>> : x \in (0..ActionSpan) \cup {CorridorLen + 1}}
OutsideCells == {<<-1, 0>>, <<GRID_WIDTH, 0>>, <<0, -1>>, <<0, GRID_HEIGHT>>}
ExecCalls == {<<k, PX(c), PY(c)>> : k \in ActionKinds, c \in InsideCells}
             \cup {<<k, PX(c), PY(c)>> : k \in {0, 5}, c \in OutsideCells}

\* reset() and direct calls of execute_action: the grid and the ledger.
NextExec ==
    \/ Reset
    \/ \E a \in ExecCalls : ExecuteAction(a[1], a[2], a[3])

SpecExec == Init /\ [][NextExec]_vars

\* What the agent of the long run passes to step(): while the episode
\* runs, an action that edits nothing or a vector of the wrong size; once
\* it is over, any of the actions.
PassActions == {<<6, 1, 0>>, <<7, 1, 0>>}
HorizonActions ==
    IF game_over THEN StepActions \cup MalformedActions
    ELSE PassActions \cup MalformedActions

\* reset() and step() over a whole episode: nothing but the episode's own
\* end stops step().
NextHorizon ==
    \/ Reset
    \/ \E action \in HorizonActions : StepNoOp(action)
    \/ \E action \in HorizonActions : StepRun(action)

SpecHorizon == Init /\ [][NextHorizon]_vars

\* The cells the position draws fall on when reset() is looked at on its
\* own: a row of as many cells as there are buildings to place.
WideCells == {<<x, 0>> : x \in 0..(Len(InitialBuildings) - 1)}

\* The layout in which an episode is run before the next reset(): the
\* buildings stand in the row in the order they were placed, so that the
\* red and the blue Business are each three cells from their House and the
\* red Business is the nearer one to the blue House.
RunLayout == <<Pos(0, 0), Pos(1, 0), Pos(2, 0), Pos(3, 0), Pos(4, 0)>>

InRunLayout ==
    /\ Len(buildings) = Len(RunLayout)
    /\ \A i \in 1..Len(buildings) : buildings[i].position = RunLayout[i]

\* What the agent passes to step() in that episode: a road next to the
\* row, or nothing to build; and the vectors of the wrong size.
RunActions == {<<0, 0, 1>>, <<6, 0, 0>>}

\* reset() from the constructed state, from the state another reset() left
\* and from the states of the first steps of an episode.
NextReset ==
    \/ ResetOn(WideCells)
    \/ \E action \in RunActions :
          InRunLayout /\ current_step < ResetStepCap /\ StepRun(action)
    \/ \E action \in MalformedActions : InRunLayout /\ StepNoOp(action)

SpecReset == Init /\ [][NextReset]_vars

\* An episode with two ways from the red House to the red Business: the
\* state after reset() put the red pair on (0, 0) and (3, 0) and the other
\* buildings far from them, and four steps built the roads (1, 0), (2, 0),
\* (1, 1) and (2, 1).
DetourBuildings ==
    <<Building(Pos(0, 0), RED, HOUSE), Building(Pos(0, 19), BLUE, HOUSE),
      Building(Pos(19, 0), GREEN, HOUSE), Building(Pos(3, 0), RED, BUSINESS),
      Building(Pos(19, 19), BLUE, BUSINESS)>>

DetourRoads == <<Pos(1, 0), Pos(2, 0), Pos(1, 1), Pos(2, 1)>>

DetourGrid ==
    [y \in 0..(GRID_HEIGHT - 1) |->
        [x \in 0..(GRID_WIDTH - 1) |->
            IF \E i \in 1..Len(DetourBuildings) :
                   DetourBuildings[i].position = Pos(x, y)
            THEN DetourBuildings[CHOOSE i \in 1..Len(DetourBuildings) :
                                     DetourBuildings[i].position = Pos(x, y)].type
            ELSE IF \E i \in 1..Len(DetourRoads) : DetourRoads[i] = Pos(x, y)
                 THEN ROAD ELSE EMPTY]]

InitDetour ==
    /\ grid = DetourGrid
    /\ cars = <<>>
    /\ buildings = DetourBuildings
    /\ resources = [InitialResources EXCEPT !["roads"] = @ - Len(DetourRoads)]
    /\ score = 0
    /\ current_step = Len(DetourRoads)
    /\ game_over = FALSE
    /\ congestion_penalty = 0
    /\ call = CallRecord("step", <<0, 2, 1>>, TRUE, TRUE, TRUE,
                         [InitialResources EXCEPT
                              !["roads"] = @ - Len(DetourRoads) + 1],
                         EMPTY, -1)

\* What the agent passes to step() from there: the last road of the second
\* way, the removal and the rebuilding of a road of the first way, nothing.
DetourActions == {<<0, 3, 1>>, <<5, 2, 0>>, <<0, 2, 0>>, <<6, 0, 0>>}

NextDetour ==
    \E action \in DetourActions : current_step < DetourStepCap /\ StepRun(action)

SpecDetour == InitDetour /\ [][NextDetour]_vars

\* The same start with an agent that removes the road before the Business
\* and lets the episode run: the cars created after the removal have no
\* way, the one already under way waits before the gap, none arrives.
CrowdActions == {<<5, 2, 0>>, <<6, 0, 0>>}

NextCrowd ==
    \E action \in CrowdActions : current_step < CrowdStepCap /\ StepRun(action)

SpecCrowd == InitDetour /\ [][NextCrowd]_vars

\* The record of a call of PathFinder::find_path: its arguments and the
\* route it returned.
PathCall(start, goal, path) ==
    [op |-> "find_path", start |-> start, goal |-> goal, path |-> path]

\* pathfinder->find_path(start, goal, grid) on the grid as it stands: the
\* call returns one of the routes the queue's order allows and changes
\* nothing.
FindPath(start, goal) ==
    /\ \E path \in find_path(start, goal, grid) :
           call' = PathCall(start, goal, path)
    /\ UNCHANGED env

\* The cells the layouts of the path finder's grids are drawn on: three
\* rows, columns 0..PathSpan.
PathWindow == {<<x, y>> : x \in 0..PathSpan, y \in 0..2}

\* The grid after PlaceRoad succeeded on each cell of `roads`, from the
\* constructed state.
LayoutGrid(roads) ==
    [y \in 0..(GRID_HEIGHT - 1) |->
        [x \in 0..(GRID_WIDTH - 1) |-> IF <<x, y>> \in roads THEN ROAD ELSE EMPTY]]

\* The constructed environment after roads were placed on some cells of
\* the window.
InitPath ==
    \E roads \in SUBSET PathWindow :
        /\ grid = LayoutGrid(roads)
        /\ resources = [InitialResources EXCEPT
                           !["roads"] = @ - Cardinality(roads)]
        /\ cars = <<>>
        /\ buildings = <<>>
        /\ score = 0
        /\ current_step = 0
        /\ game_over = FALSE
        /\ congestion_penalty = 0
        /\ call = CallRecord("construct", <<>>, FALSE, FALSE, FALSE,
                             InitialResources, -1, -1)

\* The calls of find_path: from a corner and from the middle of the
\* window, to every cell of the window.
PathStarts == {<<0, 0>>, <<1, 1>>}

NextPath == \E start \in PathStarts : \E goal \in PathWindow : FindPath(start, goal)

SpecPath == InitPath /\ [][NextPath]_vars

---------------------------------------------------------------------------
\* Properties of execute_action, checked under SpecExec.

\* The call recorded in call' is execute_action with a kind in `kinds` on a
\* cell of the grid.
ExecutedInGrid(kinds) ==
    /\ call'.op = "execute_action"
    /\ call'.action[1] \in kinds
    /\ call'.action[2] \in 0..(GRID_WIDTH - 1)
    /\ call'.action[3] \in 0..(GRID_HEIGHT - 1)

\* The resource and the tile each Place kind is documented to use.
PlaceKey(k) ==
    CASE k = 0 -> "roads" [] k = 1 -> "motorways" [] k = 2 -> "bridges"
      [] k = 3 -> "roundabouts" [] OTHER -> "traffic_lights"
PlaceKind(k) ==
    CASE k = 0 -> ROAD [] k = 1 -> MOTORWAY [] k = 2 -> BRIDGE
      [] k = 3 -> ROUNDABOUT [] OTHER -> TRAFFIC_LIGHT

\* The grid with cell (x, y) holding `tile` and every other cell as in g.
GridWith(g, x, y, tile) ==
    [yy \in DOMAIN g |-> [xx \in DOMAIN g[yy] |->
        IF xx = x /\ yy = y THEN tile ELSE g[yy][xx]]]
\* The ledger with `key` changed by d and every other entry as in res.
LedgerWith(res, key, d) ==
    [k \in DOMAIN res |-> IF k = key THEN res[k] + d ELSE res[k]]

\* C1: every resource count is >= 0 in every reachable state.
C1_ResourcesNonNegative ==
    \A k \in ResourceKeys : resources[k] >= 0

\* C1 witness: a roundabout was asked for on an Empty cell with none left,
\* and the call was refused.
C1_Witness ==
    /\ call.op = "execute_action"
    /\ call.action[1] = 3
    /\ call.pre_tile = EMPTY
    /\ ~call.ret
    /\ resources["roundabouts"] = 0

\* C2: a call of execute_action that returns false leaves the grid and
\* every ledger entry as they were.
C2_FailureChangesNothing ==
    [][(call'.op = "execute_action" /\ ~call'.ret)
         => (grid' = grid /\ resources' = resources)]_vars

\* C2 witness: a call with a negative kind on a cell of the grid was
\* refused after an earlier placement had succeeded.
C2_Witness ==
    /\ call.op = "execute_action"
    /\ call.action[1] < 0
    /\ call.pre_tile = EMPTY
    /\ ~call.ret
    /\ resources["roads"] < InitialResources["roads"]

\* C3: kinds 0..3 on a cell of the grid succeed exactly when the cell is
\* Empty and the matching resource is positive; on success that cell takes
\* the kind's tile, that resource drops by one and nothing else changes.
C3_PlaceIffEmptyAndResource ==
    [][ExecutedInGrid(0..3) =>
         LET k == call'.action[1]
             x == call'.action[2]
             y == call'.action[3]
         IN  /\ call'.ret <=> (grid[y][x] = EMPTY /\ resources[PlaceKey(k)] > 0)
             /\ call'.ret =>
                  /\ grid' = GridWith(grid, x, y, PlaceKind(k))
                  /\ resources' = LedgerWith(resources, PlaceKey(k), -1)]_vars

\* C3 witness: a bridge was placed.
C3_Witness ==
    /\ call.op = "execute_action"
    /\ call.action[1] = 2
    /\ call.ret
    /\ call.pre_tile = EMPTY
    /\ grid[call.action[3]][call.action[2]] = BRIDGE
    /\ resources["bridges"] = call.pre_resources["bridges"] - 1

\* C4: kind 4 on a cell of the grid succeeds exactly when the cell is Road
\* and traffic_lights is positive; on success the cell becomes TrafficLight
\* and only traffic_lights drops by one (roads is unchanged); on any other
\* cell it fails and no count changes.
C4_TrafficLightOnRoadOnly ==
    [][ExecutedInGrid({4}) =>
         LET x == call'.action[2]
             y == call'.action[3]
         IN  /\ call'.ret <=> (grid[y][x] = ROAD /\ resources["traffic_lights"] > 0)
             /\ call'.ret =>
                  /\ grid' = GridWith(grid, x, y, TRAFFIC_LIGHT)
                  /\ resources' = LedgerWith(resources, "traffic_lights", -1)
                  /\ resources'["roads"] = resources["roads"]
             /\ grid[y][x] # ROAD => (~call'.ret /\ resources' = resources)]_vars

\* C4 witness: a traffic light was put on a Road cell.
C4_Witness ==
    /\ call.op = "execute_action"
    /\ call.action[1] = 4
    /\ call.ret
    /\ call.pre_tile = ROAD
    /\ grid[call.action[3]][call.action[2]] = TRAFFIC_LIGHT

\* C5: kind 5 on a cell of the grid succeeds exactly when the cell is Road
\* or Motorway; on success the cell becomes Empty and exactly the resource
\* of the removed kind rises by one; TrafficLight, Bridge, Roundabout, House
\* and Business cells are never changed by it.
C5_RemoveRoadOrMotorwayOnly ==
    [][ExecutedInGrid({5}) =>
         LET x == call'.action[2]
             y == call'.action[3]
         IN  /\ call'.ret <=> (grid[y][x] = ROAD \/ grid[y][x] = MOTORWAY)
             /\ call'.ret =>
                  /\ grid' = GridWith(grid, x, y, EMPTY)
                  /\ resources' = LedgerWith(resources,
                         IF grid[y][x] = ROAD THEN "roads" ELSE "motorways", 1)
             /\ grid[y][x] \in {TRAFFIC_LIGHT, BRIDGE, ROUNDABOUT, HOUSE, BUSINESS}
                  => (grid' = grid /\ resources' = resources)]_vars

\* C5 witness: a motorway was removed.
C5_Witness ==
    /\ call.op = "execute_action"
    /\ call.action[1] = 5
    /\ call.ret
    /\ call.pre_tile = MOTORWAY
    /\ grid[call.action[3]][call.action[2]] = EMPTY
    /\ resources["motorways"] = call.pre_resources["motorways"] + 1

\* A successful placement of a kind in `kinds` (recorded in call) is
\* followed at once by Remove on the same cell (recorded in call').
RemoveRightAfterPlace(kinds) ==
    /\ call.op = "execute_action"
    /\ call.ret
    /\ call.action[1] \in kinds
    /\ call'.op = "execute_action"
    /\ call'.action = <<5, call.action[2], call.action[3]>>

\* The ledger and the target tile are again what they were before the
\* placement.
RoundTripRestores ==
    /\ resources' = call.pre_resources
    /\ grid'[call.action[3]][call.action[2]] = call.pre_tile

\* C6 as stated: for every placeable kind (0..4), placing and then at once
\* removing on the same cell restores every resource count and the tile.
C6_RoundTripEveryKind ==
    [][RemoveRightAfterPlace(0..4) => RoundTripRestores]_vars

\* C6 amended: the round trip restores the ledger and the tile for Road and
\* Motorway (kinds 0 and 1); for Bridge, Roundabout and TrafficLight (kinds
\* 2..4) the Remove is refused and the placement stays in effect.
C6_RoundTripRoadMotorway ==
    [][/\ RemoveRightAfterPlace(0..1) => (call'.ret /\ RoundTripRestores)
       /\ RemoveRightAfterPlace(2..4) =>
            /\ ~call'.ret
            /\ grid' = grid
            /\ resources' = resources
            /\ resources' # call.pre_resources]_vars

\* C6 witness: a motorway was placed on an Empty cell and removed by the
\* next call, and the ledger is back at its initial counts.
C6_Witness ==
    /\ call.op = "execute_action"
    /\ call.action[1] = 5
    /\ call.prev_placed = 1
    /\ call.ret
    /\ call.pre_tile = MOTORWAY
    /\ grid[call.action[3]][call.action[2]] = EMPTY
    /\ resources = InitialResources

---------------------------------------------------------------------------
\* Properties of step().

\* The three termination clauses, read off the state.
TerminalCondition ==
    \/ Cardinality({i \in 1..Len(cars) : cars[i].stuck_time > 20}) > 10
    \/ /\ resources["roads"] + resources["motorways"] + resources["bridges"]
          + resources["roundabouts"] + resources["traffic_lights"]
          + resources["upgrades"] = 0
       /\ Len(cars) > 15
    \/ current_step >= 1000

\* The tile of grid g at position p.
TileOn(g, p) == g[p[2]][p[1]]

\* Car i holds a route whose next waypoint is a tile a car may enter.
CanAdvance(i) ==
    /\ Len(cars[i].path) >= 2
    /\ TileOn(grid, cars[i].path[2]) # EMPTY

\* Car i of this state made its move: it reached its destination and was
\* counted, or it stands on its next waypoint in the next state, with the
\* rest of its route and no stuck time.
Advanced(i) ==
    IF cars[i].path[2] = cars[i].destination
    THEN score' >= score + 1
    ELSE \E j \in 1..Len(cars') :
            /\ cars'[j].position = cars[i].path[2]
            /\ cars'[j].path = Tail(cars[i].path)
            /\ cars'[j].stuck_time = 0

\* C7: an executed step whose action has kind >= 6 changes neither the grid
\* nor the ledger; the step counter rises by one, every car with a passable
\* next waypoint advances, cars are created only on a spawn step, and the
\* terminal flag is the termination condition of the new state.
C7_PassStepStillRuns ==
    [][(call'.op = "step" /\ call'.executed /\ call'.action[1] >= 6) =>
         /\ grid' = grid
         /\ resources' = resources
         /\ current_step' = current_step + 1
         /\ \A i \in 1..Len(cars) : CanAdvance(i) => Advanced(i)
         /\ (buildings' # buildings => current_step' % 5 = 0)
         /\ (game_over' <=> TerminalCondition')]_vars

\* C7 witness: the tenth step had kind >= 6; in it the first House emitted
\* its second car (Houses emit on steps 5 and 10 only) and a car arrived on
\* the cell next to its destination (it would have left it a step later).
C7_Witness ==
    /\ call.op = "step"
    /\ call.executed
    /\ call.action[1] >= 6
    /\ current_step = 10
    /\ Len(buildings) >= 1
    /\ buildings[1].cars_spawned = 2
    /\ \E i \in 1..Len(cars) :
          /\ Len(cars[i].path) = 2
          /\ cars[i].position # buildings[1].position

\* C8: a step on a terminal episode, or with an action that has not three
\* entries, changes nothing of the environment; and the terminal flag,
\* once true, stays true until reset().
C8_NoOpStep ==
    [][/\ (call'.op = "step" /\ (game_over \/ Len(call'.action) # 3))
            => UNCHANGED env
       /\ (game_over /\ call'.op # "reset") => game_over']_vars

\* C8 witness: the episode is over and a well-formed road placement was
\* passed to step() and not run.
C8_Witness ==
    /\ game_over
    /\ call.op = "step"
    /\ ~call.executed
    /\ Len(call.action) = 3
    /\ call.action[1] = 0

\* C9: after every executed step the terminal flag is exactly the
\* termination condition of the state the step ended in.
C9_TerminalIffCondition ==
    (call.op = "step" /\ call.executed) => (game_over <=> TerminalCondition)

\* C9 witness: an executed step ended the episode.
C9_Witness ==
    /\ call.op = "step"
    /\ call.executed
    /\ game_over
    /\ current_step = 1000

\* The cars of this state that the step leaving it finds blocked for more
\* than ten steps: the next waypoint is Empty on the step's grid.
BlockedPastThreshold ==
    {i \in 1..Len(cars) :
        /\ Len(cars[i].path) >= 2
        /\ TileOn(grid', cars[i].path[2]) = EMPTY
        /\ cars[i].stuck_time + 1 > 10}

\* C10: between resets the congestion penalty never decreases; an executed
\* step raises it by one for each car blocked past the threshold, and no
\* other call changes it.
C10_PenaltyMonotone ==
    [][call'.op # "reset" =>
         /\ congestion_penalty' >= congestion_penalty
         /\ IF call'.op = "step" /\ call'.executed
            THEN congestion_penalty' =
                     congestion_penalty + Cardinality(BlockedPastThreshold)
            ELSE congestion_penalty' = congestion_penalty]_vars

\* C10 witness: a step raised the penalty for a car stuck for more than
\* ten steps.
C10_Witness ==
    /\ call.op = "step"
    /\ call.executed
    /\ congestion_penalty >= 1
    /\ \E i \in 1..Len(cars) : cars[i].stuck_time > 10

---------------------------------------------------------------------------
\* Properties of PathFinder::find_path, checked under SpecPath.

\* The tiles a route may run over.
PassableTiles == {HOUSE, BUSINESS, ROAD, MOTORWAY, BRIDGE, ROUNDABOUT, TRAFFIC_LIGHT}

InGrid(p) == p[1] \in 0..19 /\ p[2] \in 0..19

\* Cells p and q share a side.
Adjacent(p, q) ==
    \/ p[1] = q[1] /\ (p[2] = q[2] + 1 \/ q[2] = p[2] + 1)
    \/ p[2] = q[2] /\ (p[1] = q[1] + 1 \/ q[1] = p[1] + 1)

Enterable(g, p) == InGrid(p) /\ TileOn(g, p) \in PassableTiles

SideCells(p) == {<<p[1] + 1, p[2]>>, <<p[1] - 1, p[2]>>,
                 <<p[1], p[2] + 1>>, <<p[1], p[2] - 1>>}

\* Breadth-first layers from the start: `frontier` is the set of cells at
\* distance d, over cells that can be entered; -1 when the layers run out
\* before the goal is met.
RECURSIVE Flood(_, _, _, _, _)
Flood(seen, frontier, d, goal, g) ==
    IF goal \in frontier THEN d
    ELSE LET next == {q \in UNION {SideCells(p) : p \in frontier} :
                         Enterable(g, q) /\ q \notin seen}
         IN  IF next = {} THEN -1
             ELSE Flood(seen \cup next, next, d + 1, goal, g)

\* The least number of moves from start to goal, each onto a side cell
\* that can be entered; -1 when there is no such walk.
ShortestDistance(start, goal, g) == Flood({start}, {start}, 0, goal, g)

\* C11: when the goal can be reached from the start over passable cells,
\* the route find_path returns begins with the start, ends with the goal,
\* steps between side-adjacent cells of the grid, runs over passable cells
\* after the start, and has as many moves as the shortest walk (a single
\* cell when start = goal).
C11_ShortestRoute ==
    (call.op = "find_path"
       /\ ShortestDistance(call.start, call.goal, grid) >= 0) =>
        /\ Len(call.path) >= 1
        /\ call.path[1] = call.start
        /\ call.path[Len(call.path)] = call.goal
        /\ \A i \in 1..(Len(call.path) - 1) : Adjacent(call.path[i], call.path[i + 1])
        /\ \A i \in 1..Len(call.path) : InGrid(call.path[i])
        /\ \A i \in 2..Len(call.path) : Enterable(grid, call.path[i])
        /\ Len(call.path) - 1 = ShortestDistance(call.start, call.goal, grid)

\* C11 witness: a route of four moves around a cell that cannot be entered,
\* between two cells two apart.
C11_Witness ==
    /\ call.op = "find_path"
    /\ call.start = <<0, 0>>
    /\ call.goal = <<0, 2>>
    /\ grid[1][0] = EMPTY
    /\ Len(call.path) = 5

\* C12: find_path returns the empty route exactly when the goal cannot be
\* reached from the start over passable cells.
C12_EmptyIffDisconnected ==
    call.op = "find_path" =>
        (call.path = <<>> <=> ShortestDistance(call.start, call.goal, grid) = -1)

\* C12 witness: no route to a road cell that the roads next to the start do
\* not lead to.
C12_Witness ==
    /\ call.op = "find_path"
    /\ call.path = <<>>
    /\ call.start = <<0, 0>>
    /\ call.goal = <<1, 2>>
    /\ grid[2][1] = ROAD
    /\ grid[0][1] = ROAD
    /\ grid[1][0] = ROAD

---------------------------------------------------------------------------
\* Properties of the traffic, checked under Spec.

\* The moves car i of this state has left to its destination when a step
\* runs on grid g: the edges of its route, or of a shortest walk when it
\* has no route yet (-1 when there is none).
Remaining(i, g) ==
    IF cars[i].path # <<>> THEN Len(cars[i].path) - 1
    ELSE ShortestDistance(cars[i].position, cars[i].destination, g)

\* Car i makes a move in a step that runs on grid g.
Moves(i, g) ==
    /\ Remaining(i, g) >= 1
    /\ cars[i].path # <<>> => Enterable(g, cars[i].path[2])

Arrives(i, g) == Moves(i, g) /\ Remaining(i, g) = 1

\* The place car i has in the list once the cars that arrived before it
\* have left.
PlaceAfter(i, g) == i - Cardinality({h \in 1..(i - 1) : Arrives(h, g)})

\* C13: in an executed step every car whose next waypoint is passable
\* makes exactly one move: with one move left it arrives, leaves the list
\* and adds exactly one to the score; with more left it stands on the next
\* cell of its route with one move less to go.  A route of k edges is so
\* travelled in exactly k steps: the first arrival of an episode comes no
\* sooner than the corridor's length after the first spawn step.
C13_OneTilePerStep ==
    [][(call'.op = "step" /\ call'.executed) =>
         /\ score' = score + Cardinality({i \in 1..Len(cars) : Arrives(i, grid')})
         /\ \A j \in 1..Len(cars') : ~cars'[j].completed
         /\ \A i \in 1..Len(cars) :
               (Moves(i, grid') /\ ~Arrives(i, grid')) =>
                   LET c == cars'[PlaceAfter(i, grid')]
                   IN  /\ Len(c.path) - 1 = Remaining(i, grid') - 1
                       /\ c.path[1] = c.position
                       /\ c.path[Len(c.path)] = cars[i].destination
                       /\ c.destination = cars[i].destination
                       /\ Adjacent(cars[i].position, c.position)
                       /\ cars[i].path # <<>> =>
                              /\ c.position = cars[i].path[2]
                              /\ c.path = Tail(cars[i].path)
                       /\ c.stuck_time = 0
         /\ score' >= 1 => current_step' >= SPAWN_PERIOD + CorridorLen + 1]_vars

\* C13 witness: the car emitted in step 5 travelled the corridor in the
\* steps after it and arrived; the score is 1.
C13_Witness ==
    /\ call.op = "step"
    /\ call.executed
    /\ score = 1
    /\ current_step = SPAWN_PERIOD + CorridorLen + 1
    /\ cars = <<>>

---------------------------------------------------------------------------
\* Properties of reset(), checked under SpecReset.

Houses == {i \in 1..Len(buildings) : buildings[i].type = 1}
Businesses == {i \in 1..Len(buildings) : buildings[i].type = 2}

\* The tile the registry puts on cell (x, y): the kind of a building that
\* stands there, Empty when none does.
RegistryTile(x, y) ==
    IF \E i \in 1..Len(buildings) : buildings[i].position = <<x, y>>
    THEN buildings[CHOOSE i \in 1..Len(buildings) :
                       buildings[i].position = <<x, y>>].type
    ELSE 0

\* C14: the state reset() leaves has score, step counter and penalty 0, the
\* terminal flag false, no cars, the ledger 20/3/2/1/2/1, at most three
\* Houses of different colours among red, blue, green and at most two
\* Businesses of different colours among red, blue, nothing else in the
\* registry, all on different cells, none having emitted a car, and a grid
\* that holds each building's kind on its cell and Empty everywhere else.
C14_ResetState ==
    call.op = "reset" =>
        /\ score = 0
        /\ current_step = 0
        /\ congestion_penalty = 0
        /\ game_over = FALSE
        /\ cars = <<>>
        /\ DOMAIN resources = {"roads", "motorways", "bridges", "roundabouts",
                               "traffic_lights", "upgrades"}
        /\ resources["roads"] = 20
        /\ resources["motorways"] = 3
        /\ resources["bridges"] = 2
        /\ resources["roundabouts"] = 1
        /\ resources["traffic_lights"] = 2
        /\ resources["upgrades"] = 1
        /\ Houses \cup Businesses = 1..Len(buildings)
        /\ Cardinality(Houses) <= 3
        /\ Cardinality(Businesses) <= 2
        /\ \A i \in Houses : buildings[i].color \in {0, 1, 2}
        /\ \A i \in Businesses : buildings[i].color \in {0, 1}
        /\ \A i, j \in 1..Len(buildings) :
              i # j =>
                 /\ buildings[i].position # buildings[j].position
                 /\ buildings[i].type = buildings[j].type
                        => buildings[i].color # buildings[j].color
        /\ \A i \in 1..Len(buildings) :
              InGrid(buildings[i].position) /\ buildings[i].cars_spawned = 0
        /\ \A y \in 0..19 : \A x \in 0..19 : grid[y][x] = RegistryTile(x, y)

\* C14 witness: reset() placed all five buildings, called on an episode in
\* which a road had been built.
C14_Witness ==
    /\ call.op = "reset"
    /\ Cardinality(Houses) = 3
    /\ Cardinality(Businesses) = 2
    /\ call.pre_resources["roads"] = 19

---------------------------------------------------------------------------
\* Properties of the buildings.

\* Each cell holds a House or a Business exactly when the registry has a
\* building of that kind on it.
RegistryMatchesGrid ==
    \A y \in 0..19 : \A x \in 0..19 :
        /\ grid[y][x] = 1 <=>
              \E i \in 1..Len(buildings) :
                  buildings[i].position = <<x, y>> /\ buildings[i].type = 1
        /\ grid[y][x] = 2 <=>
              \E i \in 1..Len(buildings) :
                  buildings[i].position = <<x, y>> /\ buildings[i].type = 2

\* What the registry says of where the buildings stand.
Registry ==
    [i \in 1..Len(buildings) |->
        <<buildings[i].position, buildings[i].type, buildings[i].color>>]

\* C15: in every state the House and Business cells of the grid are the
\* positions of the Houses and Businesses of the registry, and no call but
\* reset() changes which buildings the registry holds, of what kind and
\* colour, and where.
C15_BuildingsFixed ==
    /\ []RegistryMatchesGrid
    /\ [][call'.op # "reset" => Registry' = Registry]_vars

\* C15 witness: Remove was called on the cell of a House and refused; the
\* House stands.
C15_Witness ==
    /\ call.op = "execute_action"
    /\ call.action[1] = 5
    /\ call.pre_tile = 1
    /\ ~call.ret
    /\ grid[call.action[3]][call.action[2]] = 1
    /\ \E i \in 1..Len(buildings) :
          buildings[i].position = <<call.action[2], call.action[3]>>

\* Every car has the colour of a House of the registry, still stands on
\* that House while it has no route, and is bound for the first Business
\* of the registry that has its colour.
CarsMatchBuildings ==
    \A i \in 1..Len(cars) :
        /\ \E h \in Houses :
              /\ buildings[h].color = cars[i].color
              /\ cars[i].path = <<>> => buildings[h].position = cars[i].position
        /\ \E b \in Businesses :
              /\ buildings[b].position = cars[i].destination
              /\ buildings[b].color = cars[i].color
              /\ \A b2 \in Businesses :
                    b2 < b => buildings[b2].color # cars[i].color

\* The cars of this state that are in the list after a step on grid g.
Staying(g) == {i \in 1..Len(cars) : ~Arrives(i, g)}

\* C16: every car has the colour of the House it was created at and of the
\* Business on its destination, which is the first Business of that colour
\* in the registry; a step creates cars on Houses of their colour only, and
\* a car keeps its colour and destination as long as it is in the list.
C16_ColourMatch ==
    /\ []CarsMatchBuildings
    /\ [][(call'.op = "step" /\ call'.executed) =>
            /\ \A i \in Staying(grid') :
                  /\ cars'[PlaceAfter(i, grid')].color = cars[i].color
                  /\ cars'[PlaceAfter(i, grid')].destination = cars[i].destination
            /\ \A j \in (Cardinality(Staying(grid')) + 1)..Len(cars') :
                  /\ cars'[j].path = <<>>
                  /\ \E h \in Houses :
                        /\ buildings[h].position = cars'[j].position
                        /\ buildings[h].color = cars'[j].color]_vars

\* C16 witness: a blue car on its way past the red Business to the blue
\* one, and a red car bound for the red one.
C16_Witness ==
    /\ \E i \in 1..Len(cars) :
          /\ cars[i].color = 1
          /\ cars[i].position = <<3, 0>>
          /\ cars[i].destination = <<4, 0>>
    /\ \E i \in 1..Len(cars) :
          /\ cars[i].color = 0
          /\ cars[i].destination = <<3, 0>>

\* The buildings whose count of emitted cars the step leaving this state
\* raises.
Emitting == {i \in 1..Len(buildings) :
                buildings'[i].cars_spawned # buildings[i].cars_spawned}

\* The cars the step leaving this state appends to the list.
Created == (Cardinality(Staying(grid')) + 1)..Len(cars')

\* C17: a step creates cars only when its incremented counter is a
\* multiple of 5, one for each House whose count it raises, by one, from
\* below 5; no other call but reset() changes a count; every count stays
\* within 0..5.
C17_SpawnCadence ==
    /\ [](\A i \in 1..Len(buildings) : buildings[i].cars_spawned \in 0..5)
    /\ [][IF call'.op = "step" /\ call'.executed
          THEN /\ Len(buildings') = Len(buildings)
               /\ (Created # {} \/ Emitting # {}) => current_step' % 5 = 0
               /\ \A i \in Emitting :
                     /\ buildings[i].type = 1
                     /\ buildings[i].cars_spawned < 5
                     /\ buildings'[i].cars_spawned = buildings[i].cars_spawned + 1
                     /\ Cardinality({j \in Created :
                            cars'[j].position = buildings[i].position}) = 1
               /\ \A j \in Created :
                     \E i \in Emitting : cars'[j].position = buildings[i].position
          ELSE call'.op # "reset" => buildings' = buildings /\ cars' = cars]_vars

\* C17 witness: a House that has emitted its five cars let a spawn step
\* pass.
C17_Witness ==
    /\ call.op = "step"
    /\ call.executed
    /\ current_step = 30
    /\ Len(cars) = 5
    /\ \E i \in 1..Len(buildings) :
          buildings[i].type = 1 /\ buildings[i].cars_spawned = 5

---------------------------------------------------------------------------
\* Properties of the observation, checked under SpecReset.

\* C18: what every reset() and every step(), run or not, returns has 810
\* entries: 400 of the grid (sevenths), 400 of the car density (fifths, or
\* the whole 1), the 6 resources over 20, 3, 2, 1, 2, 1, and the score,
\* the car count, the penalty and the step counter over 100, 50, 100, 1000.
C18_ObservationLength ==
    call.op \in {"reset", "step"} =>
        LET obs == ReturnedObservation
        IN  /\ Len(obs) = 810
            /\ \A k \in 1..400 : obs[k][2] = 7
            /\ \A k \in 401..800 : obs[k][2] \in {5, 1}
            /\ [k \in 1..6 |-> obs[800 + k][2]] = <<20, 3, 2, 1, 2, 1>>
            /\ [k \in 1..4 |-> obs[806 + k][2]] = <<100, 50, 100, 1000>>

\* C18 witness: a step that was not run, its action having two entries, on
\* an episode with two cars in the list.
C18_Witness ==
    /\ call.op = "step"
    /\ ~call.executed
    /\ Len(call.action) = 2
    /\ Len(cars) = 2
    /\ Len(ReturnedObservation) = 810

---------------------------------------------------------------------------
\* Properties of the order of the phases of step(), checked under Spec.

\* C19: in an executed step the cars are moved on the grid the step's
\* action left: a car moves exactly when its next waypoint is passable on
\* that grid (when a route exists on it, for a car without one) and waits
\* otherwise; the cars the step creates are appended after the move, and
\* stand on their House without a route and with stuck time 0 when the
\* step ends; the terminal flag is the termination condition of the state
\* the step ends in.
C19_PhaseOrder ==
    [][(call'.op = "step" /\ call'.executed) =>
         /\ \A i \in Staying(grid') :
               LET c == cars'[PlaceAfter(i, grid')]
               IN  IF Moves(i, grid')
                   THEN /\ c.position # cars[i].position
                        /\ cars[i].path # <<>> => c.position = cars[i].path[2]
                        /\ Enterable(grid', c.position)
                        /\ c.stuck_time = 0
                   ELSE /\ c.position = cars[i].position
                        /\ c.path = cars[i].path
                        /\ c.stuck_time = IF cars[i].path # <<>>
                                          THEN cars[i].stuck_time + 1
                                          ELSE cars[i].stuck_time
         /\ \A j \in Created :
               /\ cars'[j].path = <<>>
               /\ cars'[j].stuck_time = 0
               /\ TileOn(grid', cars'[j].position) = 1
         /\ game_over' <=> TerminalCondition']_vars

\* C19 witness: the step's action removed the road a car was about to
\* enter, and the car waited in that same step.
C19_Witness ==
    /\ call.op = "step"
    /\ call.executed
    /\ call.action[1] = 5
    /\ call.ret
    /\ \E i \in 1..Len(cars) :
          /\ Len(cars[i].path) >= 2
          /\ cars[i].path[2] = <<call.action[2], call.action[3]>>
          /\ cars[i].stuck_time = 1

---------------------------------------------------------------------------
\* Properties of the routes the cars hold, checked under SpecDetour.

\* C20: a car that holds a route keeps it in every executed step: when its
\* next waypoint is passable on the step's grid it moves there and the
\* route loses its first cell, otherwise it stays where it is with the
\* route unchanged, whether or not the grid has another way to the
\* destination.
C20_NoReplan ==
    [][(call'.op = "step" /\ call'.executed) =>
         \A i \in Staying(grid') :
             cars[i].path # <<>> =>
                 LET c == cars'[PlaceAfter(i, grid')]
                 IN  IF Enterable(grid', cars[i].path[2])
                     THEN c.path = Tail(cars[i].path) /\ c.position = cars[i].path[2]
                     ELSE c.path = cars[i].path /\ c.position = cars[i].position]_vars

\* C20 witness: a car has waited two steps before a removed road, holding
\* its route over it, while the second way to its destination is open.
C20_Witness ==
    \E i \in 1..Len(cars) :
        /\ cars[i].path = <<<<1, 0>>, <<2, 0>>, <<3, 0>>>>
        /\ cars[i].position = <<1, 0>>
        /\ cars[i].stuck_time = 2
        /\ grid[0][2] = 0
        /\ ShortestDistance(cars[i].position, cars[i].destination, grid) = 4

\* The cars of this state that hold a route of two waypoints or more and
\* find the second one impassable on grid g.
Blocked(g) ==
    {i \in 1..Len(cars) : Len(cars[i].path) >= 2 /\ ~Enterable(g, cars[i].path[2])}

\* C21: in an executed step a car with a route of two waypoints or more
\* moves onto the second one when its tile is passable, drops the first and
\* has stuck time 0 (or has arrived and left); otherwise it keeps position
\* and route and its stuck time rises by one; the congestion penalty rises
\* by one for each car whose raised stuck time is above 10, in every step
\* it spends there.
C21_MoveOrWait ==
    [][(call'.op = "step" /\ call'.executed) =>
         /\ \A i \in 1..Len(cars) :
               Len(cars[i].path) >= 2 =>
                   IF i \in Blocked(grid')
                   THEN LET c == cars'[PlaceAfter(i, grid')]
                        IN  /\ c.position = cars[i].position
                            /\ c.path = cars[i].path
                            /\ c.stuck_time = cars[i].stuck_time + 1
                   ELSE \/ /\ cars[i].path[2] = cars[i].destination
                           /\ Arrives(i, grid')
                        \/ LET c == cars'[PlaceAfter(i, grid')]
                           IN  /\ c.position = cars[i].path[2]
                               /\ c.path = Tail(cars[i].path)
                               /\ c.stuck_time = 0
         /\ congestion_penalty' = congestion_penalty
                + Cardinality({i \in Blocked(grid') : cars[i].stuck_time + 1 > 10})]_vars

\* C21 witness: a car has waited twelve steps before a removed road; the
\* penalty was raised in the eleventh and again in the twelfth.
C21_Witness ==
    /\ call.op = "step"
    /\ call.executed
    /\ congestion_penalty = 2
    /\ \E i \in 1..Len(cars) :
          /\ cars[i].stuck_time = 12
          /\ Len(cars[i].path) >= 2
          /\ grid[cars[i].path[2][2]][cars[i].path[2][1]] = 0

\* No car of the list is completed or stands on its destination.
NoArrivedCars ==
    \A i \in 1..Len(cars) :
        ~cars[i].completed /\ cars[i].position # cars[i].destination

\* The cars the Houses emitted in the step leaving this state, by their
\* counts.
Emitted(i) == buildings'[i].cars_spawned - buildings[i].cars_spawned

RECURSIVE EmittedUpTo(_)
EmittedUpTo(n) == IF n = 0 THEN 0 ELSE Emitted(n) + EmittedUpTo(n - 1)

\* C22: between calls no car of the list is completed or on its
\* destination; an executed step takes out of the list exactly the cars
\* that arrive in it, and the others, those behind an arriving car
\* included, make their move of that step and keep their order.
C22_RemovedOnArrival ==
    /\ []NoArrivedCars
    /\ [][(call'.op = "step" /\ call'.executed) =>
            /\ Len(cars') = Cardinality(Staying(grid')) + EmittedUpTo(Len(buildings))
            /\ \A i \in Staying(grid') :
                  LET c == cars'[PlaceAfter(i, grid')]
                  IN  /\ c.color = cars[i].color
                      /\ c.destination = cars[i].destination
                      /\ IF Moves(i, grid')
                         THEN Adjacent(c.position, cars[i].position)
                         ELSE c.position = cars[i].position
            /\ \A i, j \in Staying(grid') :
                  i < j => PlaceAfter(i, grid') < PlaceAfter(j, grid')]_vars

\* C22 witness: the red car at the head of the list arrived and left in
\* the step just run; a blue car is now first, and a red car behind it
\* moved in that same step.
C22_Witness ==
    /\ call.op = "step"
    /\ call.executed
    /\ score = 1
    /\ current_step = 12
    /\ Len(cars) >= 2
    /\ cars[1].color = 1
    /\ \E j \in 2..Len(cars) :
          /\ cars[j].color = 0
          /\ cars[j].position = <<2, 0>>
          /\ cars[j].stuck_time = 0

\* The Houses for whose colour the registry holds no Business.
Unmatched ==
    {i \in Houses : \A j \in Businesses : buildings[j].color # buildings[i].color}

\* C23: a House for whose colour the registry holds no Business has
\* spawned-count 0 in every state, no car of the list stands for it, and
\* no step, eligible or not, changes its count.
C23_UnmatchedHouseSilent ==
    /\ [](\A i \in Unmatched :
              /\ buildings[i].cars_spawned = 0
              /\ \A k \in 1..Len(cars) :
                    /\ cars[k].color # buildings[i].color
                    /\ cars[k].position # buildings[i].position)
    /\ [][(call'.op = "step" /\ call'.executed) =>
              \A i \in Unmatched : buildings'[i] = buildings[i]]_vars

\* C23 witness: the episode has run to its end, through every eligible
\* step, beside a House that has no Business of its colour.
C23_Witness ==
    /\ call.op = "step"
    /\ call.executed
    /\ current_step = MAX_STEPS
    /\ Unmatched # {}
    /\ \A i \in Unmatched : buildings[i].cars_spawned = 0

\* The cars of this state that hold no route and have no walk to their
\* destination over grid g.
NoWay(g) ==
    {i \in 1..Len(cars) :
        /\ cars[i].path = <<>>
        /\ ShortestDistance(cars[i].position, cars[i].destination, g) = -1}

\* C24: a car without a route has stuck time 0; a step on whose grid it
\* has no walk to its destination leaves it as it was (position, empty
\* route, stuck time), and the penalty rises by no more than the number of
\* the other cars; with a walk on that grid the car moves in that step.
C24_NoWayNoPenalty ==
    /\ [](\A i \in 1..Len(cars) : cars[i].path = <<>> => cars[i].stuck_time = 0)
    /\ [][(call'.op = "step" /\ call'.executed) =>
            LET nw == NoWay(grid')
            IN  /\ \A i \in nw : cars'[PlaceAfter(i, grid')] = cars[i]
                /\ \A i \in 1..Len(cars) :
                      (cars[i].path = <<>> /\ i \notin nw) => Moves(i, grid')
                /\ congestion_penalty' - congestion_penalty
                       <= Len(cars) - Cardinality(nw)]_vars

\* C24 witness: two red cars stand on their House without a route, the
\* elder since step 10, while the penalty has risen twice for the car
\* waiting before the removed road.
C24_Witness ==
    /\ call.op = "step"
    /\ call.executed
    /\ congestion_penalty = 2
    /\ \E i, j \in 1..Len(cars) :
          /\ i < j
          /\ cars[i].color = 0 /\ cars[j].color = 0
          /\ cars[i].path = <<>> /\ cars[j].path = <<>>
          /\ cars[i].position = <<0, 0>> /\ cars[j].position = <<0, 0>>
          /\ cars[i].stuck_time = 0 /\ cars[j].stuck_time = 0

\* The cells of the grid that are not Empty.
BuiltCells ==
    UNION {{<<x, y>> : x \in {x \in 0..(GRID_WIDTH - 1) : grid[y][x] # 0}}
           : y \in {y \in 0..(GRID_HEIGHT - 1) : grid[y] # EmptyGrid[y]}}

\* C25: in every state the ledger and the grid add up to what reset()
\* hands out: roads with the Road and TrafficLight cells to 20, motorways
\* with the Motorway cells to 3, bridges with the Bridge cells to 2,
\* roundabouts with the Roundabout cells to 1, traffic lights with the
\* TrafficLight cells to 2; so no count is above its initial value.
C25_ResourcesConserved ==
    \A built \in {BuiltCells} :
        LET CellsOf(t) == Cardinality({p \in built : TileOn(grid, p) = t})
        IN  /\ resources["roads"] + CellsOf(3) + CellsOf(7) = 20
            /\ resources["motorways"] + CellsOf(4) = 3
            /\ resources["bridges"] + CellsOf(5) = 2
            /\ resources["roundabouts"] + CellsOf(6) = 1
            /\ resources["traffic_lights"] + CellsOf(7) = 2
            /\ resources["roads"] <= 20
            /\ resources["motorways"] <= 3
            /\ resources["bridges"] <= 2
            /\ resources["roundabouts"] <= 1
            /\ resources["traffic_lights"] <= 2

\* C25 witness: a road was turned into a traffic light and the only
\* roundabout is on the grid: 19 roads, 1 traffic light and no roundabout
\* are left.
C25_Witness ==
    /\ call.op = "execute_action"
    /\ call.ret
    /\ resources["roads"] = 19
    /\ resources["traffic_lights"] = 1
    /\ resources["roundabouts"] = 0
    /\ \E p, q \in InsideCells : TileOn(grid, p) = 7 /\ TileOn(grid, q) = 6

\* C26: the upgrades count is 1 in every state, so the ledger sums to at
\* least 1 and the clause of check_game_over on an empty ledger with more
\* than 15 cars does not hold.
C26_UpgradeNeverSpent ==
    /\ resources["upgrades"] = 1
    /\ SumOver(resources, DOMAIN resources) >= 1
    /\ ~(SumOver(resources, DOMAIN resources) = 0 /\ Len(cars) > 15)

\* C26 witness: with the roundabout and both bridges placed, a call of
\* action type 6, the one past the removal, was refused and the upgrade is
\* still there.
C26_Witness ==
    /\ call.op = "execute_action"
    /\ call.action[1] = 6
    /\ ~call.ret
    /\ resources["roundabouts"] = 0
    /\ resources["bridges"] = 0
    /\ resources["upgrades"] = 1

\* The cars the Houses have emitted since reset().
RECURSIVE SpawnedUpTo(_)
SpawnedUpTo(n) ==
    IF n = 0 THEN 0
    ELSE (IF buildings[n].type = 1 THEN buildings[n].cars_spawned ELSE 0)
             + SpawnedUpTo(n - 1)

\* C27: at most two Houses have a Business of their colour, each has
\* emitted at most 5 cars, so the list holds at most 10 cars, at most 10 of
\* them have a stuck time above 20, and the clause of check_game_over on
\* more than 10 such cars does not hold.
C27_AtMostTenCars ==
    /\ Cardinality(Houses \ Unmatched) <= 2
    /\ \A i \in Houses : buildings[i].cars_spawned <= 5
    /\ Len(cars) <= SpawnedUpTo(Len(buildings))
    /\ Len(cars) <= 10
    /\ StuckCars(cars) <= 10
    /\ ~(StuckCars(cars) > 10)

\* C27 witness: both Houses have been at their cap through the eligible
\* step 30, all 10 cars are in the list, one of them with a stuck time
\* above 20, and the episode goes on.
C27_Witness ==
    /\ call.op = "step"
    /\ call.executed
    /\ current_step = 30
    /\ Len(cars) = 10
    /\ StuckCars(cars) >= 1
    /\ ~game_over

C29_CarsAccounted ==
    SpawnedUpTo(Len(buildings)) = score + Len(cars)

\* C29 witness: two red cars were delivered, a third is on its way, and
\* blue cars that have no way stand on their House.
C29_Witness ==
    /\ call.op = "step"
    /\ call.executed
    /\ score = 2
    /\ \E i, j \in 1..Len(cars) :
          /\ cars[i].color = 0
          /\ Len(cars[i].path) >= 2
          /\ cars[i].position # <<0, 0>>
          /\ cars[j].color = 1
          /\ cars[j].path = <<>>

\* C30: every car of the list stands on a cell of the grid, and a route it
\* holds begins with that cell, ends with its destination and steps
\* between side-adjacent cells of the grid.
C30_RouteWellFormed ==
    \A i \in 1..Len(cars) :
        /\ InGrid(cars[i].position)
        /\ cars[i].path # <<>> =>
              LET path == cars[i].path
              IN  /\ path[1] = cars[i].position
                  /\ path[Len(path)] = cars[i].destination
                  /\ \A k \in 1..Len(path) : InGrid(path[k])
                  /\ \A k \in 1..(Len(path) - 1) : Adjacent(path[k], path[k + 1])

\* C30 witness: one car is two moves into the second way with three moves
\* of its route left, while another waits with its route before the
\* removed road.
C30_Witness ==
    /\ call.op = "step"
    /\ call.executed
    /\ \E i, j \in 1..Len(cars) :
          /\ cars[i].position = <<1, 1>>
          /\ Len(cars[i].path) = 4
          /\ cars[j].stuck_time >= 1
          /\ Len(cars[j].path) >= 2
          /\ cars[j].position = <<1, 0>>

=============================================================================
